---------------------------- MODULE Spec2Model ----------------------------
(***************************************************************************)
(* mkfs-btrfs-rs: the FormatterOptions registry (src/format.rs), its       *)
(* compilation into an argument vector (to_args / build) and the           *)
(* invocation of mkfs.btrfs (Formatter::format).                           *)
(*                                                                         *)
(* Text.  A Rust str / String is a sequence of Unicode scalar values       *)
(* (code points, 0 .. 1114111); str::len() is the length of its UTF-8      *)
(* encoding (Utf8Len).  An OsString / Path is a sequence of units: a code  *)
(* point, or a byte that is not valid UTF-8 (RawByte(b), above the code    *)
(* point range).  Literals of the source are written as code points with   *)
(* the text in a comment.                                                  *)
(***************************************************************************)
EXTENDS Integers, Sequences, FiniteSets, TLC

VARIABLES
    opts,       \* the caller's FormatterOptions value (the `self` of the chain)
    formatter,  \* Option<Formatter>: the Formatter returned by build(), until format() consumes it
    late,       \* a setter was called since the held Formatter was built
    calls,      \* history: per slot, the argument of the last successful setter call
    last,       \* the last call: [op |-> name, arg |-> argument]
    prev,       \* history: the registry and the Formatter held when the last call was made
    ret,        \* what the last call returned: "Ok", "ArgumentError" or "IoError"
    printed,    \* Option: what the last call wrote to standard output
    child       \* Option<Command>: the command the last call ran

vars == <<opts, formatter, late, calls, last, prev, ret, printed, child>>

---------------------------------------------------------------------------
(* Bounds of the exploration.                                              *)

\* the caller populates at most this many slots of one registry
MaxSet == 3
\* SpecLabel: label lengths within this many bytes of the limit
LabelWindow == 4
\* SpecNodesize: node sizes around 2^0 .. 2^MaxBit
MaxBit == 16

---------------------------------------------------------------------------
(* Option<T>                                                               *)

None == <<>>
Some(x) == <<x>>
Unwrap(o) == o[1]

---------------------------------------------------------------------------
(* String literals of the source.                                          *)

Flag_byte_count == <<45, 45, 98, 121, 116, 101, 45, 99, 111, 117, 110, 116, 61>>  \* "--byte-count="
Flag_checksum == <<45, 45, 99, 104, 101, 99, 107, 115, 117, 109, 61>>  \* "--checksum="
Flag_data == <<45, 45, 100, 97, 116, 97, 61>>  \* "--data="
Flag_features == <<45, 45, 102, 101, 97, 116, 117, 114, 101, 115, 61>>  \* "--features="
Flag_force == <<45, 45, 102, 111, 114, 99, 101>>  \* "--force"
Flag_label == <<45, 45, 108, 97, 98, 101, 108, 61>>  \* "--label="
Flag_metadata == <<45, 45, 109, 101, 116, 97, 100, 97, 116, 97, 61>>  \* "--metadata="
Flag_mixed == <<45, 45, 109, 105, 120, 101, 100>>  \* "--mixed"
Flag_no_discard == <<45, 45, 110, 111, 100, 105, 115, 99, 97, 114, 100>>  \* "--nodiscard"
Flag_nodesize == <<45, 45, 110, 111, 100, 101, 115, 105, 122, 101, 61>>  \* "--nodesize="
Flag_rootdir == <<45, 45, 114, 111, 111, 116, 100, 105, 114, 61>>  \* "--rootdir="
Flag_runtime_features == <<45, 45, 114, 117, 110, 116, 105, 109, 101, 45, 102, 101, 97, 116, 117, 114, 101, 115, 61>>  \* "--runtime-features="
Flag_sectorsize == <<45, 45, 115, 101, 99, 116, 111, 114, 115, 105, 122, 101, 61>>  \* "--sectorsize="
Flag_shrink == <<45, 45, 115, 104, 114, 105, 110, 107>>  \* "--shrink"
Flag_uuid == <<45, 45, 117, 117, 105, 100, 61>>  \* "--uuid="

Kw_raid0 == <<114, 97, 105, 100, 48>>  \* "raid0"
Kw_raid1 == <<114, 97, 105, 100, 49>>  \* "raid1"
Kw_raid1c3 == <<114, 97, 105, 100, 49, 99, 51>>  \* "raid1c3"
Kw_raid1c4 == <<114, 97, 105, 100, 49, 99, 52>>  \* "raid1c4"
Kw_raid5 == <<114, 97, 105, 100, 53>>  \* "raid5"
Kw_raid6 == <<114, 97, 105, 100, 54>>  \* "raid6"
Kw_raid10 == <<114, 97, 105, 100, 49, 48>>  \* "raid10"
Kw_single == <<115, 105, 110, 103, 108, 101>>  \* "single"
Kw_dup == <<100, 117, 112>>  \* "dup"
Kw_crc32c == <<99, 114, 99, 51, 50, 99>>  \* "crc32c"
Kw_xxhash == <<120, 120, 104, 97, 115, 104>>  \* "xxhash"
Kw_sha256 == <<115, 104, 97, 50, 53, 54>>  \* "sha256"
Kw_blake2 == <<98, 108, 97, 107, 101, 50>>  \* "blake2"

Str_mixed_bg == <<109, 105, 120, 101, 100, 45, 98, 103>>  \* "mixed-bg"
Str_extref == <<101, 120, 116, 114, 101, 102>>  \* "extref"
Str_quota == <<113, 117, 111, 116, 97>>  \* "quota"
Str_label_label == <<108, 97, 98, 101, 108, 45, 108, 97, 98, 101, 108>>  \* "label-label"
Str_uuid == <<55, 51, 101, 49, 98, 55, 101, 50, 45, 97, 51, 97, 56, 45, 52, 57, 99, 50, 45, 98, 50, 53, 56, 45, 48, 54, 102, 48, 49, 97, 56, 56, 57, 98, 98, 97>>  \* "73e1b7e2-a3a8-49c2-b258-06f01a889bba"
Path_src == <<115, 114, 99>>  \* "src"
Path_test_btrfs == <<47, 116, 109, 112, 47, 116, 101, 115, 116, 46, 98, 116, 114, 102, 115>>  \* "/tmp/test.btrfs"
Path_missing == <<46, 47, 109, 105, 115, 115, 105, 110, 103>>  \* "./missing"
Path_locked == <<47, 114, 111, 111, 116, 47, 108, 111, 99, 107, 101, 100, 47, 100, 101, 118>>  \* "/root/locked/dev"
Str_mkfs_btrfs == <<109, 107, 102, 115, 46, 98, 116, 114, 102, 115>>  \* "mkfs.btrfs"
Str_data == <<100, 97, 116, 97>>  \* "data"

\* a byte of an OsString that is not part of valid UTF-8
RawByte(b) == 1114112 + b
\* U+FFFD REPLACEMENT CHARACTER
ReplacementChar == 65533
IsChar(u) == u < 1114112

\* a path that is not valid Unicode: "data" followed by the byte 0xFF
Path_raw == Str_data \o <<RawByte(255)>>

---------------------------------------------------------------------------
(* Text helpers: what format!, Display and len() do.                       *)

\* char::len_utf8
Utf8Len(c) == IF c < 128 THEN 1 ELSE IF c < 2048 THEN 2 ELSE IF c < 65536 THEN 3 ELSE 4

\* str::len(): the length in bytes
StrLen(s) ==
    LET Wide(w) == Cardinality({i \in DOMAIN s : Utf8Len(s[i]) = w})
    IN  Wide(1) + 2 * Wide(2) + 3 * Wide(3) + 4 * Wide(4)

\* Display of an unsigned integer: its decimal digits (u64 and usize values
\* are explored below 2^31)
RECURSIVE DisplayUint(_)
DisplayUint(n) == IF n < 10 THEN <<48 + n>> ELSE DisplayUint(n \div 10) \o <<48 + (n % 10)>>

\* [String]::join(",")
RECURSIVE Join(_)
Join(list) ==
    IF list = <<>> THEN <<>>
    ELSE IF Len(list) = 1 THEN list[1]
    ELSE list[1] \o <<44>> \o Join(Tail(list))

\* Path::display(): lossy, a unit that is not valid Unicode shows as U+FFFD
PathDisplay(p) == [i \in DOMAIN p |-> IF IsChar(p[i]) THEN p[i] ELSE ReplacementChar]

\* usize::count_ones / usize::is_power_of_two
RECURSIVE CountOnes(_)
CountOnes(n) == IF n = 0 THEN 0 ELSE (n % 2) + CountOnes(n \div 2)
IsPowerOfTwo(n) == CountOnes(n) = 1

\* impl Display for DataProfile
DataProfile == {"Raid0", "Raid1", "Raid1c3", "Raid1c4", "Raid5", "Raid6", "Raid10", "Single", "Dup"}
\* faulty variant: the arm of Raid10 repeats the keyword of Raid1
DisplayDataProfile_raid10_as_raid1(p) ==
    CASE p = "Raid0" -> Kw_raid0
      [] p = "Raid1" -> Kw_raid1
      [] p = "Raid1c3" -> Kw_raid1c3
      [] p = "Raid1c4" -> Kw_raid1c4
      [] p = "Raid5" -> Kw_raid5
      [] p = "Raid6" -> Kw_raid6
      [] p = "Raid10" -> Kw_raid1
      [] p = "Single" -> Kw_single
      [] p = "Dup" -> Kw_dup

DisplayDataProfile(p) ==
    CASE p = "Raid0" -> Kw_raid0
      [] p = "Raid1" -> Kw_raid1
      [] p = "Raid1c3" -> Kw_raid1c3
      [] p = "Raid1c4" -> Kw_raid1c4
      [] p = "Raid5" -> Kw_raid5
      [] p = "Raid6" -> Kw_raid6
      [] p = "Raid10" -> Kw_raid10
      [] p = "Single" -> Kw_single
      [] p = "Dup" -> Kw_dup

\* impl Display for ChecksumAlgorithm
ChecksumAlgorithm == {"Crc32c", "XxHash", "Sha256", "Blake2"}
DisplayChecksumAlgorithm(a) ==
    CASE a = "Crc32c" -> Kw_crc32c
      [] a = "XxHash" -> Kw_xxhash
      [] a = "Sha256" -> Kw_sha256
      [] a = "Blake2" -> Kw_blake2

\* impl Display for FormatOpt (the List variant is the only one constructed)
DisplayFormatOpt(list) == Join(list)

---------------------------------------------------------------------------
(* The host filesystem, as Path::try_exists sees it.                       *)

\* what is at a path: "exists", "missing", or "denied" (a parent cannot be searched)
HostFs(p) ==
    CASE p = Path_src -> "exists"
      [] p = Path_test_btrfs -> "exists"
      [] p = Path_raw -> "exists"
      [] p = Path_missing -> "missing"
      [] p = Path_locked -> "denied"

\* Path::try_exists: Ok(true), Ok(false), or Err when existence cannot be determined
try_exists(p) ==
    CASE HostFs(p) = "exists" -> [tag |-> "Ok", val |-> TRUE]
      [] HostFs(p) = "missing" -> [tag |-> "Ok", val |-> FALSE]
      [] HostFs(p) = "denied" -> [tag |-> "Err", val |-> FALSE]

---------------------------------------------------------------------------
(* FormatterOptions: one Option<OsString> per option.                      *)

Slots == {"byte_count", "checksum", "data", "features", "force", "label", "metadata",
          "mixed", "no_discard", "nodesize", "rootdir", "runtime_features", "sectorsize",
          "shrink", "uuid"}

\* FormatterOptions::default(), what Formatter::options() returns
options == [s \in Slots |-> None]

\* Result<Self>: Ok(self), or Err(e) with the self that is dropped on return
Ok(self) == [tag |-> "Ok", self |-> self]
Err(e, self) == [tag |-> e, self |-> self]

\* faulty variant: the new token is pushed after the old one instead of replacing it
byte_count_pushes(self, n) ==
    Ok([self EXCEPT !.byte_count = Append(@, Flag_byte_count \o DisplayUint(n))])

byte_count(self, n) ==
    Ok([self EXCEPT !.byte_count = Some(Flag_byte_count \o DisplayUint(n))])

checksum(self, a) ==
    Ok([self EXCEPT !.checksum = Some(Flag_checksum \o DisplayChecksumAlgorithm(a))])

data(self, p) ==
    Ok([self EXCEPT !.data = Some(Flag_data \o DisplayDataProfile(p))])

features(self, list) ==
    Ok([self EXCEPT !.features = Some(Flag_features \o DisplayFormatOpt(list))])

\* faulty variant: the flag is set on a fresh registry instead of on self
force_on_default(self) ==
    Ok([options EXCEPT !.force = Some(Flag_force)])

force(self) ==
    Ok([self EXCEPT !.force = Some(Flag_force)])

\* the longest label, in bytes
MaxLabelLen == 255
\* faulty variant: the length is counted in characters
label_counts_chars(self, text) ==
    IF Len(text) > 255
    THEN Err("ArgumentError", self)
    ELSE Ok([self EXCEPT !.label = Some(Flag_label \o text)])

\* faulty variant: the slot is assigned before the length is checked
label_assigns_first(self, text) ==
    LET assigned == [self EXCEPT !.label = Some(Flag_label \o text)]
    IN  IF StrLen(text) > 255 THEN Err("ArgumentError", assigned) ELSE Ok(assigned)

label(self, text) ==
    IF StrLen(text) > MaxLabelLen
    THEN Err("ArgumentError", self)
    ELSE Ok([self EXCEPT !.label = Some(Flag_label \o text)])

metadata(self, p) ==
    Ok([self EXCEPT !.metadata = Some(Flag_metadata \o DisplayDataProfile(p))])

mixed(self) ==
    Ok([self EXCEPT !.mixed = Some(Flag_mixed)])

no_discard(self) ==
    Ok([self EXCEPT !.no_discard = Some(Flag_no_discard)])

\* the largest node size
MaxNodesize == 16384
\* faulty variant: the bound is exclusive, as the doc comment has it ("less than 2^14")
nodesize_exclusive(self, n) ==
    IF IsPowerOfTwo(n) /\ n < 16384
    THEN Ok([self EXCEPT !.nodesize = Some(Flag_nodesize \o DisplayUint(n))])
    ELSE Err("ArgumentError", self)

nodesize(self, n) ==
    IF IsPowerOfTwo(n) /\ n <= MaxNodesize
    THEN Ok([self EXCEPT !.nodesize = Some(Flag_nodesize \o DisplayUint(n))])
    ELSE Err("ArgumentError", self)

rootdir(self, path) ==
    IF try_exists(path).tag = "Err"
    THEN Err("IoError", self)
    ELSE Ok([self EXCEPT !.rootdir = Some(Flag_rootdir \o PathDisplay(path))])

runtime_features(self, list) ==
    Ok([self EXCEPT !.runtime_features = Some(Flag_runtime_features \o DisplayFormatOpt(list))])

sectorsize(self, n) ==
    Ok([self EXCEPT !.sectorsize = Some(Flag_sectorsize \o DisplayUint(n))])

shrink(self) ==
    Ok([self EXCEPT !.shrink = Some(Flag_shrink)])

uuid(self, text) ==
    Ok([self EXCEPT !.uuid = Some(Flag_uuid \o text)])

\* faulty variant: the array lists shrink before rootdir
SlotOrder_shrink_first ==
    <<"byte_count", "checksum", "data", "features", "force", "label", "metadata",
      "mixed", "no_discard", "nodesize", "shrink", "runtime_features", "sectorsize",
      "rootdir", "uuid">>

\* the array to_args iterates over, in its order
SlotOrder == <<"byte_count", "checksum", "data", "features", "force", "label", "metadata",
               "mixed", "no_discard", "nodesize", "rootdir", "runtime_features",
               "sectorsize", "shrink", "uuid">>

\* the loop of to_args over the first n entries of the array
RECURSIVE PushArgs(_, _)
PushArgs(self, n) ==
    IF n = 0 THEN <<>>
    ELSE LET args == PushArgs(self, n - 1)
             option == self[SlotOrder[n]]
         IN  IF option # None THEN Append(args, option[1]) ELSE args

to_args(self) == PushArgs(self, Len(SlotOrder))

\* faulty variant: the registry handed back is a fresh one
dump_args_takes(self) == [self |-> options, out |-> to_args(self)]

\* prints the arguments and hands self back; out is the vector given to
\* println!, its {:#?} rendering is not modelled
dump_args(self) == [self |-> self, out |-> to_args(self)]

\* Formatter { args }
build(self) == [args |-> to_args(self)]

\* faulty variant: the device is put in front of the options
format_device_first(self, device, spawned) ==
    IF try_exists(device).tag = "Err"
    THEN [tag |-> "IoError", child |-> None]
    ELSE LET args == <<device>> \o self.args
             command == [program |-> Str_mkfs_btrfs, args |-> args]
         IN  [tag |-> IF spawned THEN "Ok" ELSE "IoError", child |-> Some(command)]

\* Formatter::format; spawned: whether the operating system could start the program
format(self, device, spawned) ==
    IF try_exists(device).tag = "Err"
    THEN [tag |-> "IoError", child |-> None]
    ELSE LET args == Append(self.args, device)
             command == [program |-> Str_mkfs_btrfs, args |-> args]
         IN  [tag |-> IF spawned THEN "Ok" ELSE "IoError", child |-> Some(command)]

---------------------------------------------------------------------------
(* Arguments the caller passes.                                            *)

\* the character c, n times
Repeat(c, n) == [i \in 1 .. n |-> c]

ByteCounts == {0, 536870912}
Checksums == {"Blake2"}
DataProfiles == {"Raid1c3"}
MetadataProfiles == {"Dup"}
FeatureLists == {<<Str_mixed_bg, Str_extref>>}
RuntimeFeatureLists == {<<Str_quota>>}
Labels == {Str_label_label}
\* 256 times "A", as in the test very_long_label
LongLabel == Repeat(65, 256)
Nodesizes == {4096, 4097}
\* SpecErr: node sizes that are and are not accepted
ErrNodesizes == {0, 4096, 4097, 16384, 32768}
Sectorsizes == {4096}
Uuids == {Str_uuid}
RootdirPaths == {Path_src, Path_raw, Path_missing, Path_locked}
DevicePaths == {Path_test_btrfs, Path_raw, Path_missing, Path_locked}

\* "A" (1 byte), U+00E9 (2 bytes), U+20AC (3 bytes), U+1F600 (4 bytes)
LabelChars == {65, 233, 8364, 128512}
\* SpecLabel: "", "label-label", and every run of one character whose byte
\* length is within LabelWindow of the limit
BoundaryLabels ==
    {<<>>, Str_label_label} \cup
    {Repeat(x[1], x[2]) : x \in {y \in LabelChars \X (0 .. (MaxLabelLen + LabelWindow)) :
        /\ y[2] * Utf8Len(y[1]) >= MaxLabelLen - LabelWindow
        /\ y[2] * Utf8Len(y[1]) <= MaxLabelLen + LabelWindow}}

\* SpecNodesize: 0, and every 2^i - 1, 2^i, 2^i + 1 for i up to MaxBit
RECURSIVE Pow2(_)
Pow2(i) == IF i = 0 THEN 1 ELSE 2 * Pow2(i - 1)
BoundaryNodesizes == {Pow2(i) + d : i \in 0 .. MaxBit, d \in {-1, 0, 1}}

---------------------------------------------------------------------------
(* The caller: a chain of calls on one registry.                           *)

Populated(self) == {s \in Slots : self[s] # None}

\* the setters the caller may still call while it holds a Formatter
LateSlots == {"force", "nodesize"}

\* the caller populates at most MaxSet slots, and calls at most one setter, of
\* LateSlots, between build() and format()
MaySet(slot) ==
    /\ formatter = None \/ (~late /\ slot \in LateSlots)
    /\ opts[slot] # None \/ Cardinality(Populated(opts)) < MaxSet

Snapshot == [opts |-> opts, formatter |-> formatter]

\* a setter call `opts = opts.op(arg)` returning r
Setter(op, slot, arg, r) ==
    /\ MaySet(slot)
    /\ opts' = r.self
    /\ ret' = r.tag
    /\ calls' = IF r.tag = "Ok" THEN [calls EXCEPT ![slot] = Some(arg)] ELSE calls
    /\ last' = [op |-> op, arg |-> arg]
    /\ prev' = Snapshot
    /\ late' = (formatter # None)
    /\ printed' = None
    /\ child' = None
    /\ UNCHANGED formatter

ByteCount(n) == Setter("byte_count", "byte_count", n, byte_count(opts, n))
Checksum(a) == Setter("checksum", "checksum", a, checksum(opts, a))
Data(p) == Setter("data", "data", p, data(opts, p))
Features(list) == Setter("features", "features", list, features(opts, list))
Force == Setter("force", "force", <<>>, force(opts))
Label(text) == Setter("label", "label", text, label(opts, text))
Metadata(p) == Setter("metadata", "metadata", p, metadata(opts, p))
Mixed == Setter("mixed", "mixed", <<>>, mixed(opts))
NoDiscard == Setter("no_discard", "no_discard", <<>>, no_discard(opts))
Nodesize(n) == Setter("nodesize", "nodesize", n, nodesize(opts, n))
Rootdir(path) == Setter("rootdir", "rootdir", path, rootdir(opts, path))
RuntimeFeatures(list) ==
    Setter("runtime_features", "runtime_features", list, runtime_features(opts, list))
Sectorsize(n) == Setter("sectorsize", "sectorsize", n, sectorsize(opts, n))
Shrink == Setter("shrink", "shrink", <<>>, shrink(opts))
Uuid(text) == Setter("uuid", "uuid", text, uuid(opts, text))

\* `opts = opts.dump_args()`
DumpArgs ==
    /\ ~late
    /\ opts' = dump_args(opts).self
    /\ printed' = Some(dump_args(opts).out)
    /\ ret' = "Ok"
    /\ last' = [op |-> "dump_args", arg |-> <<>>]
    /\ prev' = Snapshot
    /\ child' = None
    /\ UNCHANGED <<formatter, late, calls>>

\* `formatter = opts.build()`
Build ==
    /\ ~late
    /\ formatter' = Some(build(opts))
    /\ late' = FALSE
    /\ ret' = "Ok"
    /\ last' = [op |-> "build", arg |-> <<>>]
    /\ prev' = Snapshot
    /\ printed' = None
    /\ child' = None
    /\ UNCHANGED <<opts, calls>>

\* `formatter.format(device)`: the Formatter is moved into the call
Format(device) ==
    /\ formatter # None
    /\ \E spawned \in BOOLEAN :
          LET r == format(Unwrap(formatter), device, spawned)
          IN  /\ ret' = r.tag
              /\ child' = r.child
    /\ formatter' = None
    /\ late' = FALSE
    /\ last' = [op |-> "format", arg |-> device]
    /\ prev' = Snapshot
    /\ printed' = None
    /\ UNCHANGED <<opts, calls>>

Init ==
    /\ opts = options
    /\ formatter = None
    /\ late = FALSE
    /\ calls = [s \in Slots |-> None]
    /\ last = [op |-> "options", arg |-> <<>>]
    /\ prev = [opts |-> options, formatter |-> None]
    /\ ret = "Ok"
    /\ printed = None
    /\ child = None

Next ==
    \/ \E n \in ByteCounts : ByteCount(n)
    \/ \E a \in Checksums : Checksum(a)
    \/ \E p \in DataProfiles : Data(p)
    \/ \E list \in FeatureLists : Features(list)
    \/ Force
    \/ \E text \in Labels : Label(text)
    \/ \E p \in MetadataProfiles : Metadata(p)
    \/ Mixed
    \/ NoDiscard
    \/ \E n \in Nodesizes : Nodesize(n)
    \/ \E path \in RootdirPaths : Rootdir(path)
    \/ \E list \in RuntimeFeatureLists : RuntimeFeatures(list)
    \/ \E n \in Sectorsizes : Sectorsize(n)
    \/ Shrink
    \/ \E text \in Uuids : Uuid(text)
    \/ DumpArgs
    \/ Build
    \/ \E device \in DevicePaths : Format(device)

Spec == Init /\ [][Next]_vars

\* label() alone, on arguments around the length limit
NextLabel == \E text \in BoundaryLabels : Label(text)
SpecLabel == Init /\ [][NextLabel]_vars

\* nodesize() alone, on arguments around the powers of two
NextNodesize == \E n \in BoundaryNodesizes : Nodesize(n)
SpecNodesize == Init /\ [][NextNodesize]_vars

\* the setters that can fail, with build() and dump_args()
NextErr ==
    \/ \E text \in Labels \cup {LongLabel} : Label(text)
    \/ \E n \in ErrNodesizes : Nodesize(n)
    \/ \E path \in RootdirPaths : Rootdir(path)
    \/ Force
    \/ DumpArgs
    \/ Build
SpecErr == Init /\ [][NextErr]_vars

\* checksum(), data() and metadata() alone, on every variant of their enums
NextDisplay ==
    \/ \E a \in ChecksumAlgorithm : Checksum(a)
    \/ \E d \in DataProfile : Data(d)
    \/ \E d \in DataProfile : Metadata(d)
SpecDisplay == Init /\ [][NextDisplay]_vars

---------------------------------------------------------------------------
(* Properties.                                                             *)

\* the setter of a slot, as a call on the registry `self`
Apply(slot, self, arg) ==
    CASE slot = "byte_count" -> byte_count(self, arg)
      [] slot = "checksum" -> checksum(self, arg)
      [] slot = "data" -> data(self, arg)
      [] slot = "features" -> features(self, arg)
      [] slot = "force" -> force(self)
      [] slot = "label" -> label(self, arg)
      [] slot = "metadata" -> metadata(self, arg)
      [] slot = "mixed" -> mixed(self)
      [] slot = "no_discard" -> no_discard(self)
      [] slot = "nodesize" -> nodesize(self, arg)
      [] slot = "rootdir" -> rootdir(self, arg)
      [] slot = "runtime_features" -> runtime_features(self, arg)
      [] slot = "sectorsize" -> sectorsize(self, arg)
      [] slot = "shrink" -> shrink(self)
      [] slot = "uuid" -> uuid(self, arg)

\* the registry after the recorded calls of the slots order[1], .., order[n],
\* made in that order on an empty registry
RECURSIVE Replay(_, _, _)
Replay(order, c, n) ==
    IF n = 0 THEN options
    ELSE Apply(order[n], Replay(order, c, n - 1), Unwrap(c[order[n]])).self

\* every order of the slots of S
Orders(S) ==
    {o \in [1 .. Cardinality(S) -> S] : \A i, j \in DOMAIN o : o[i] = o[j] => i = j}

\* the option order the documentation declares
DeclaredOrder == <<"byte_count", "checksum", "data", "features", "force", "label",
                   "metadata", "mixed", "no_discard", "nodesize", "rootdir",
                   "runtime_features", "sectorsize", "shrink", "uuid">>

\* the flag each option is passed to mkfs.btrfs with
FlagOf(slot) ==
    CASE slot = "byte_count" -> Flag_byte_count
      [] slot = "checksum" -> Flag_checksum
      [] slot = "data" -> Flag_data
      [] slot = "features" -> Flag_features
      [] slot = "force" -> Flag_force
      [] slot = "label" -> Flag_label
      [] slot = "metadata" -> Flag_metadata
      [] slot = "mixed" -> Flag_mixed
      [] slot = "no_discard" -> Flag_no_discard
      [] slot = "nodesize" -> Flag_nodesize
      [] slot = "rootdir" -> Flag_rootdir
      [] slot = "runtime_features" -> Flag_runtime_features
      [] slot = "sectorsize" -> Flag_sectorsize
      [] slot = "shrink" -> Flag_shrink
      [] slot = "uuid" -> Flag_uuid

StartsWith(s, prefix) ==
    Len(s) >= Len(prefix) /\ SubSeq(s, 1, Len(prefix)) = prefix

\* the positions of DeclaredOrder whose flag the token carries
PlacesOf(token) == {k \in DOMAIN DeclaredOrder : StartsWith(token, FlagOf(DeclaredOrder[k]))}

\* the slots that have been set by a successful call
Called == {s \in Slots : calls[s] # None}

\* C1: when a setter call has succeeded, whatever the order in which the final
\* successful call of each option is made on an empty registry, to_args()
\* gives the vector of the registry reached, and that vector holds one token
\* per populated slot, in the declared slot order.
C1_OrderIndependent ==
    LET v == to_args(opts)
    IN  (last.op \in Slots /\ ret = "Ok") =>
        /\ \A o \in Orders(Called) : to_args(Replay(o, calls, Len(o))) = v
        /\ Len(v) = Cardinality(Called)
        /\ LET place == [i \in DOMAIN v |-> PlacesOf(v[i])]
           IN  /\ \A i \in DOMAIN v : \E k \in place[i] : calls[DeclaredOrder[k]] # None
               /\ \A i, j \in DOMAIN v :
                     i < j => \A k \in place[i], m \in place[j] : k < m

\* three options set, the last of them one that precedes an earlier one in the
\* declared order
C1_Witness ==
    /\ Cardinality(Called) = 3
    /\ last.op = "force"
    /\ ret = "Ok"
    /\ prev.opts.force = None
    /\ prev.opts.label # None
    /\ prev.opts.uuid # None

\* C2: every slot holds nothing or exactly one token, the compiled vector
\* holds at most one token per slot (at most 15), and the token of a slot is
\* the one its last successful setter call produced.
C2_OneTokenPerSlot ==
    LET v == to_args(opts)
    IN  /\ \A s \in Slots : Len(opts[s]) <= 1
        /\ Len(v) <= 15
        /\ \A s \in Slots :
              Cardinality({i \in DOMAIN v : StartsWith(v[i], FlagOf(s))}) <= 1
        /\ \A s \in Slots :
              opts[s] = IF calls[s] = None THEN None
                        ELSE Apply(s, options, Unwrap(calls[s])).self[s]

\* byte_count called again with a different value
C2_Witness ==
    /\ last.op = "byte_count"
    /\ ret = "Ok"
    /\ prev.opts.byte_count # None
    /\ prev.opts.byte_count # opts.byte_count
    /\ opts.mixed # None

\* C3 (as claimed): format(target) on a target that does not exist returns an
\* I/O error and runs no command.
C3_MissingTargetFailsBeforeSpawn ==
    (last.op = "format" /\ HostFs(last.arg) = "missing")
        => (ret = "IoError" /\ child = None)

\* C4 (as claimed): rootdir(path) returns an I/O error and leaves the slot as
\* it was when the path does not exist, and sets `--rootdir=<display form>`
\* when it does.
C4_RootdirChecksExistence ==
    last.op = "rootdir" =>
        IF HostFs(last.arg) = "exists"
        THEN ret = "Ok" /\ opts.rootdir = Some(Flag_rootdir \o PathDisplay(last.arg))
        ELSE ret = "IoError" /\ opts.rootdir = prev.opts.rootdir

\* the registry on which exactly label("label-label"), shrink() and
\* rootdir(dir) have succeeded
OnlyLabelShrinkRootdir(dir) ==
    /\ Called = {"label", "shrink", "rootdir"}
    /\ calls.label = Some(Str_label_label)
    /\ calls.rootdir = Some(dir)

ExistingDirs == {p \in RootdirPaths : HostFs(p) = "exists"}

\* C5 (as claimed): that registry compiles to `--label=label-label`, `--shrink`,
\* `--rootdir=<dir>`, in this order.
C5_LabelShrinkRootdir ==
    \A dir \in ExistingDirs :
        (last.op = "build" /\ OnlyLabelShrinkRootdir(dir)) =>
            Unwrap(formatter).args =
                << Flag_label \o Str_label_label, Flag_shrink,
                   Flag_rootdir \o PathDisplay(dir) >>

\* C5 (amended): that registry compiles to `--label=label-label`,
\* `--rootdir=<dir>`, `--shrink`, in this order (label, rootdir, shrink: the
\* declared slot order), and format() passes these three tokens followed by the
\* target path.
C5_LabelRootdirShrink ==
    \A dir \in ExistingDirs :
        LET compiled == << Flag_label \o Str_label_label,
                           Flag_rootdir \o PathDisplay(dir), Flag_shrink >>
        IN  /\ (last.op = "build" /\ OnlyLabelShrinkRootdir(dir)) =>
                  Unwrap(formatter).args = compiled
            /\ (last.op = "format" /\ child # None /\ OnlyLabelShrinkRootdir(dir)) =>
                  Unwrap(child).args = compiled \o <<last.arg>>

\* format() has run mkfs.btrfs for that registry
C5_Witness ==
    /\ last.op = "format"
    /\ child # None
    /\ OnlyLabelShrinkRootdir(Path_src)
    /\ Len(Unwrap(child).args) = 4

\* whether n is one of 2^0, 2^1, ..
IsTwoToThe(n) == \E i \in 0 .. 30 : n = Pow2(i)

Utf8Bytes(c) ==
    IF c < 128 THEN <<c>>
    ELSE IF c < 2048 THEN <<192 + (c \div 64), 128 + (c % 64)>>
    ELSE IF c < 65536 THEN <<224 + (c \div 4096), 128 + ((c \div 64) % 64), 128 + (c % 64)>>
    ELSE <<240 + (c \div 262144), 128 + ((c \div 4096) % 64),
           128 + ((c \div 64) % 64), 128 + (c % 64)>>

\* the number of bytes of the UTF-8 encoding of a text
RECURSIVE ByteLength(_)
ByteLength(text) ==
    IF text = <<>> THEN 0
    ELSE IF Len(text) = 1 THEN Len(Utf8Bytes(text[1]))
    ELSE LET half == Len(text) \div 2
         IN  ByteLength(SubSeq(text, 1, half)) + ByteLength(SubSeq(text, half + 1, Len(text)))

\* C7: label(text) returns an ArgumentError when the text is 256 bytes or
\* longer, and returns Ok and sets the slot to `--label=<text>` when it is at
\* most 255 bytes long.
C7_LabelByteLimit ==
    last.op = "label" =>
        IF ByteLength(last.arg) >= 256
        THEN ret = "ArgumentError"
        ELSE ret = "Ok" /\ opts.label = Some(Flag_label \o last.arg)

\* 128 characters of two bytes refused on a registry whose label is 255 bytes
C7_Witness ==
    /\ last.op = "label"
    /\ Len(last.arg) = 128
    /\ ByteLength(last.arg) = 256
    /\ ret = "ArgumentError"
    /\ opts.label = Some(Flag_label \o Repeat(65, 255))

\* the slots set by a successful call, in the declared order
CalledInOrder == SelectSeq(DeclaredOrder, LAMBDA s : calls[s] # None)

\* the registry the successful calls alone produce
FromSuccessfulCalls == Replay(CalledInOrder, calls, Len(CalledInOrder))

C9_ArgsThenDevice ==
    /\ (last.op = "format" /\ child # None) =>
          /\ prev.formatter # None
          /\ Unwrap(child).program = Str_mkfs_btrfs
          /\ Unwrap(child).args = Unwrap(prev.formatter).args \o <<last.arg>>
    /\ last.op = "build" => Unwrap(formatter).args = to_args(opts)
    /\ last.op \in Slots => formatter = prev.formatter

\* mkfs.btrfs run on a path that is not valid Unicode, by a Formatter built
\* before the last setter call
C9_Witness ==
    /\ last.op = "format"
    /\ child # None
    /\ last.arg = Path_raw
    /\ Len(Unwrap(child).args) = 3
    /\ Unwrap(child).args # to_args(opts) \o <<last.arg>>

\* C10: build() and dump_args() return normally and leave the registry as it
\* was; build() gives the vector to_args() compiles from it and dump_args()
\* prints that vector, the same as the build() before it when no setter was
\* called in between; an empty registry compiles to the empty vector.
C10_CompileIsPure ==
    /\ last.op = "build" =>
          /\ ret = "Ok"
          /\ opts = prev.opts
          /\ Unwrap(formatter).args = to_args(prev.opts)
          /\ prev.formatter # None => formatter = prev.formatter
          /\ opts = options => Unwrap(formatter).args = <<>>
    /\ last.op = "dump_args" =>
          /\ ret = "Ok"
          /\ opts = prev.opts
          /\ formatter = prev.formatter
          /\ printed = Some(to_args(prev.opts))
          /\ formatter # None => printed = Some(Unwrap(formatter).args)

\* build() called again on a registry that a Formatter was built from
C10_Witness ==
    /\ last.op = "build"
    /\ prev.formatter # None
    /\ Cardinality(Called) = 3

\* the keyword the documentation of mkfs.btrfs gives each checksum algorithm
ChecksumKeyword(v) ==
    CASE v = "Crc32c" -> <<99, 114, 99, 51, 50, 99>>  \* "crc32c"
      [] v = "XxHash" -> <<120, 120, 104, 97, 115, 104>>  \* "xxhash"
      [] v = "Sha256" -> <<115, 104, 97, 50, 53, 54>>  \* "sha256"
      [] v = "Blake2" -> <<98, 108, 97, 107, 101, 50>>  \* "blake2"

\* the keyword the documentation of mkfs.btrfs gives each profile
ProfileKeyword(v) ==
    CASE v = "Raid0" -> <<114, 97, 105, 100, 48>>  \* "raid0"
      [] v = "Raid1" -> <<114, 97, 105, 100, 49>>  \* "raid1"
      [] v = "Raid1c3" -> <<114, 97, 105, 100, 49, 99, 51>>  \* "raid1c3"
      [] v = "Raid1c4" -> <<114, 97, 105, 100, 49, 99, 52>>  \* "raid1c4"
      [] v = "Raid5" -> <<114, 97, 105, 100, 53>>  \* "raid5"
      [] v = "Raid6" -> <<114, 97, 105, 100, 54>>  \* "raid6"
      [] v = "Raid10" -> <<114, 97, 105, 100, 49, 48>>  \* "raid10"
      [] v = "Single" -> <<115, 105, 110, 103, 108, 101>>  \* "single"
      [] v = "Dup" -> <<100, 117, 112>>  \* "dup"

\* C11: Display maps every variant of ChecksumAlgorithm and of DataProfile to
\* its documented lowercase keyword, distinct variants to distinct keywords,
\* and checksum(), data() and metadata() return Ok and set their slot to
\* `--checksum=<keyword>`, `--data=<keyword>`, `--metadata=<keyword>`.
C11_DisplayKeywords ==
    /\ \A a \in {"Crc32c", "XxHash", "Sha256", "Blake2"} :
          DisplayChecksumAlgorithm(a) = ChecksumKeyword(a)
    /\ \A d \in {"Raid0", "Raid1", "Raid1c3", "Raid1c4", "Raid5", "Raid6", "Raid10",
                  "Single", "Dup"} :
          DisplayDataProfile(d) = ProfileKeyword(d)
    /\ \A a, b \in ChecksumAlgorithm :
          a # b => DisplayChecksumAlgorithm(a) # DisplayChecksumAlgorithm(b)
    /\ \A d, e \in DataProfile : d # e => DisplayDataProfile(d) # DisplayDataProfile(e)
    /\ last.op = "checksum" =>
          ret = "Ok" /\ opts.checksum = Some(<<45, 45, 99, 104, 101, 99, 107, 115, 117, 109, 61>>
                                                \o ChecksumKeyword(last.arg))
    /\ last.op = "data" =>
          ret = "Ok" /\ opts.data = Some(<<45, 45, 100, 97, 116, 97, 61>>
                                            \o ProfileKeyword(last.arg))
    /\ last.op = "metadata" =>
          ret = "Ok" /\ opts.metadata = Some(<<45, 45, 109, 101, 116, 97, 100, 97, 116, 97, 61>>
                                                \o ProfileKeyword(last.arg))

\* metadata(Raid10) on a registry whose data profile is Raid1 and whose
\* checksum is XxHash
C11_Witness ==
    /\ last.op = "metadata"
    /\ last.arg = "Raid10"
    /\ ret = "Ok"
    /\ calls.data = Some("Raid1")
    /\ calls.checksum = Some("XxHash")
    /\ opts.metadata # opts.data

===========================================================================
